---- MODULE Spec2Model ----
(***************************************************************************)
(* TinyBoxedStr (helix-stdx/src/str.rs): a two-word owned string.  One     *)
(* byte of length, PREFIX_LEN bytes of prefix and one word that is either  *)
(* the inline suffix or a thin pointer to an exactly-sized heap buffer.    *)
(* The model keeps the process heap, the instances a caller holds, and a   *)
(* record of what the last call did to the allocator.                      *)
(***************************************************************************)
EXTENDS Integers, Sequences, FiniteSets, TLC

\* ---------------------------------------------------------------- bounds
MaxInst == 2
MaxAddr == 3
NumPat == 2
OverLen == 2
MaxSlack == 1

\* ------------------------------------------------------- program constants
WordSize == 8
SizeOfU8 == 1
AlignOfU8 == 1
U8Max == 255

PREFIX_LEN == WordSize - SizeOfU8
SUFFIX_LEN == WordSize
INLINE_LEN == PREFIX_LEN + SUFFIX_LEN
MAX_LEN == U8Max

Slots == 1..MaxInst
Addrs == 1..MaxAddr
NullPtr == 0

\* ------------------------------------------------------------ input texts
\* Byte i of the p-th text: texts p and p+1 agree on the first PREFIX_LEN
\* bytes and differ from byte WordSize on.
Byte(i, p) == 97 + ((i + (p - 1) * (i \div WordSize)) % 26)
Str(n, p) == [i \in 1..n |-> Byte(i, p)]
Zeros(n) == [i \in 1..n |-> 0]

Lens == {0, INLINE_LEN, INLINE_LEN + 1, MAX_LEN}
          \cup ((MAX_LEN + 1)..(MAX_LEN + OverLen))
\* One text of every sampled length, and NumPat texts of the shortest
\* heap-mode length.
SamplePool == {Str(n, 1) : n \in Lens} \cup {Str(INLINE_LEN + 1, p) : p \in 1..NumPat}
AllLens == 0..(MAX_LEN + OverLen)

VARIABLES heap, objs, live, text, last, pool
vars == <<heap, objs, live, text, last, pool>>

\* ------------------------------------------------------------- allocator
FreeCell == [live |-> FALSE, size |-> 0, align |-> 0, bytes |-> <<>>, by |-> "none"]
NoLayout == [size |-> 0, align |-> 0]

\* The memory a call works on: the heap and what the call has done to it.
Mem(h) == [heap |-> h, allocs |-> 0, deallocs |-> 0, reallocs |-> 0, copied |-> 0,
           want |-> NoLayout, had |-> NoLayout, hadBy |-> "none", ub |-> FALSE,
           oom |-> FALSE]

FreeAddrs(h) == {a \in Addrs : ~h[a].live}

\* The block the allocator hands out next: the lowest free one, so that a
\* block just freed is the first to be given out again.
NextFree(h) ==
    IF FreeAddrs(h) = {} THEN NullPtr
    ELSE CHOOSE a \in FreeAddrs(h) : \A b \in FreeAddrs(h) : a <= b

\* alloc / alloc_zeroed: the memory after the call and the block returned.
\* With no free block the allocation fails (oom) and the process aborts.
alloc(m, lay, zero, who) ==
    LET a == NextFree(m.heap)
    IN  IF a = NullPtr
        THEN [mem |-> [m EXCEPT !.oom = TRUE], ptr |-> NullPtr]
        ELSE [mem |-> [m EXCEPT !.heap[a] = [live |-> TRUE, size |-> lay.size,
                                              align |-> lay.align,
                                              bytes |-> IF zero THEN Zeros(lay.size)
                                                        ELSE <<>>,
                                              by |-> who],
                                 !.allocs = @ + 1],
              ptr |-> a]

\* Freeing a block that is not live, or with another layout than it was
\* allocated with, is undefined behaviour: it is flagged in ub.
dealloc(m, p, lay) ==
    IF p \notin Addrs
    THEN [m EXCEPT !.deallocs = @ + 1, !.want = lay, !.ub = TRUE]
    ELSE [m EXCEPT !.heap[p] = FreeCell,
                   !.deallocs = @ + 1,
                   !.want = lay,
                   !.had = [size |-> m.heap[p].size, align |-> m.heap[p].align],
                   !.hadBy = m.heap[p].by,
                   !.ub = m.ub \/ ~m.heap[p].live
                               \/ m.heap[p].size # lay.size
                               \/ m.heap[p].align # lay.align]

PadToAlign(size, align) == ((size + align - 1) \div align) * align

layout(len) == [size |-> PadToAlign(len * SizeOfU8, AlignOfU8), align |-> AlignOfU8]

\* -------------------------------------------------------- representation
Suffix(bytes) == [kind |-> "suffix", suffix |-> bytes, ptr |-> NullPtr]
Ptr(p) == [kind |-> "ptr", suffix |-> <<>>, ptr |-> p]

Uninit == [len |-> 0, prefix |-> Zeros(PREFIX_LEN), trailing |-> Suffix(Zeros(SUFFIX_LEN))]

len(this) == this.len
is_empty(this) == this.len = 0

\* Whether the bytes as_bytes would read are there to be read.
Readable(h, this) ==
    IF this.len <= INLINE_LEN
    THEN this.trailing.kind = "suffix"
    ELSE /\ this.trailing.kind = "ptr"
         /\ this.trailing.ptr \in Addrs
         /\ h[this.trailing.ptr].live
         /\ Len(h[this.trailing.ptr].bytes) >= this.len

Poison == <<-1>>

as_bytes(h, this) ==
    IF ~Readable(h, this) THEN Poison
    ELSE IF this.len <= INLINE_LEN
         THEN SubSeq(this.prefix \o this.trailing.suffix, 1, this.len)
         ELSE SubSeq(h[this.trailing.ptr].bytes, 1, this.len)

as_str(h, this) == as_bytes(h, this)

\* unsafe { this.as_bytes_mut() }.copy_from_slice(src): the pair of the
\* memory and the instance after the write.
as_bytes_mut_copy(m, this, src) ==
    IF this.len <= INLINE_LEN
    THEN LET region == this.prefix \o this.trailing.suffix
             filled == src \o SubSeq(region, Len(src) + 1, INLINE_LEN)
         IN  IF this.trailing.kind = "suffix"
             THEN [mem |-> m,
                   this |-> [this EXCEPT !.prefix = SubSeq(filled, 1, PREFIX_LEN),
                                         !.trailing = Suffix(SubSeq(filled, PREFIX_LEN + 1,
                                                                    INLINE_LEN))]]
             ELSE [mem |-> [m EXCEPT !.ub = TRUE], this |-> this]
    ELSE LET p == this.trailing.ptr
         IN  IF this.trailing.kind = "ptr" /\ p \in Addrs /\ m.heap[p].live
                /\ m.heap[p].size >= Len(src)
             THEN [mem |-> [m EXCEPT !.heap[p].bytes = src, !.copied = @ + Len(src)],
                   this |-> this]
             ELSE [mem |-> [m EXCEPT !.ub = TRUE], this |-> this]

\* zeroed with the inline test off by one.
zeroed_lt(m, n) ==
    IF n < INLINE_LEN
    THEN [mem |-> m,
          this |-> [len |-> n, prefix |-> Zeros(PREFIX_LEN),
                    trailing |-> Suffix(Zeros(SUFFIX_LEN))]]
    ELSE LET b == alloc(m, layout(n), TRUE, "alloc_zeroed")
         IN  [mem |-> b.mem,
              this |-> [len |-> n, prefix |-> Zeros(PREFIX_LEN), trailing |-> Ptr(b.ptr)]]

zeroed(m, n) ==
    IF n <= INLINE_LEN
    THEN [mem |-> m,
          this |-> [len |-> n, prefix |-> Zeros(PREFIX_LEN),
                    trailing |-> Suffix(Zeros(SUFFIX_LEN))]]
    ELSE LET b == alloc(m, layout(n), TRUE, "alloc_zeroed")
         IN  [mem |-> b.mem,
              this |-> [len |-> n, prefix |-> Zeros(PREFIX_LEN), trailing |-> Ptr(b.ptr)]]

\* ----------------------------------------------------------- construction
Err(m) == [res |-> "Err", mem |-> m, this |-> Uninit]
Ok(m, this) == [res |-> "Ok", mem |-> m, this |-> this]

\* try_from(&str) refusing a text of exactly MAX_LEN bytes.
try_from_str_ge(m, s) ==
    IF Len(s) >= MAX_LEN THEN Err(m)
    ELSE LET z == zeroed(m, Len(s))
             w == as_bytes_mut_copy(z.mem, z.this, s)
         IN  IF w.this.len > INLINE_LEN
             THEN Ok(w.mem, [w.this EXCEPT !.prefix = SubSeq(s, 1, PREFIX_LEN)])
             ELSE Ok(w.mem, w.this)

\* try_from(&str) that leaves the prefix of a heap-mode instance zeroed.
try_from_str_noprefix(m, s) ==
    IF Len(s) > MAX_LEN THEN Err(m)
    ELSE LET z == zeroed(m, Len(s))
             w == as_bytes_mut_copy(z.mem, z.this, s)
         IN  Ok(w.mem, w.this)

try_from_str(m, s) ==
    IF Len(s) > MAX_LEN THEN Err(m)
    ELSE LET z == zeroed(m, Len(s))
             w == as_bytes_mut_copy(z.mem, z.this, s)
         IN  IF w.this.len > INLINE_LEN
             THEN Ok(w.mem, [w.this EXCEPT !.prefix = SubSeq(s, 1, PREFIX_LEN)])
             ELSE Ok(w.mem, w.this)

\* An owned String of the caller: with_capacity(cap) followed by push_str(s).
\* A capacity of zero allocates nothing.
String_new(m, s, cap) ==
    IF cap = 0
    THEN [mem |-> m, s |-> [ptr |-> NullPtr, len |-> 0, cap |-> 0]]
    ELSE LET b == alloc(m, layout(cap), FALSE, "String")
         IN  [mem |-> IF b.ptr = NullPtr THEN b.mem
                      ELSE [b.mem EXCEPT !.heap[b.ptr].bytes = s],
              s |-> [ptr |-> b.ptr, len |-> Len(s), cap |-> cap]]

String_as_str(h, S) ==
    IF S.cap = 0 \/ S.ptr = NullPtr THEN <<>> ELSE SubSeq(h[S.ptr].bytes, 1, S.len)

String_drop(m, S) ==
    IF S.cap = 0 THEN m ELSE dealloc(m, S.ptr, layout(S.cap))

\* realloc to a smaller size: the allocator shrinks the block where it is
\* or moves it to another block.
realloc(m, p, lay, newSize, moves) ==
    LET cell == m.heap[p]
        bad == ~cell.live \/ cell.size # lay.size \/ cell.align # lay.align
        kept == SubSeq(cell.bytes, 1, IF Len(cell.bytes) < newSize
                                      THEN Len(cell.bytes) ELSE newSize)
        a == NextFree(m.heap)
    IN  IF moves
        THEN IF a = NullPtr
             THEN [mem |-> [m EXCEPT !.oom = TRUE], ptr |-> NullPtr]
             ELSE [mem |-> [m EXCEPT !.heap[p] = FreeCell,
                                     !.heap[a] = [cell EXCEPT !.size = newSize,
                                                              !.bytes = kept],
                                     !.reallocs = @ + 1,
                                     !.copied = @ + Len(kept),
                                     !.ub = m.ub \/ bad],
                   ptr |-> a]
        ELSE [mem |-> [m EXCEPT !.heap[p].size = newSize,
                                !.heap[p].bytes = kept,
                                !.reallocs = @ + 1,
                                !.ub = m.ub \/ bad],
              ptr |-> p]

\* The String's pointer taken as it is, slack and all.
into_boxed_str_noshrink(m, S, moves) == [mem |-> m, ptr |-> S.ptr]

\* String::into_boxed_str followed by Box::into_raw: shrink_to_fit
\* reallocates only when the capacity is larger than the length.
into_boxed_str(m, S, moves) ==
    IF S.cap > S.len
    THEN realloc(m, S.ptr, layout(S.cap), S.len, moves)
    ELSE [mem |-> m, ptr |-> S.ptr]

\* try_from(String) that takes the pointer and still lets the String drop.
try_from_String_asptr(m, S, moves) ==
    IF S.len <= INLINE_LEN
    THEN LET r == try_from_str(m, String_as_str(m.heap, S))
         IN  [r EXCEPT !.mem = String_drop(r.mem, S)]
    ELSE IF S.len > MAX_LEN
         THEN Err(String_drop(m, S))
         ELSE Ok(String_drop(m, S),
                 [len |-> S.len,
                  prefix |-> SubSeq(String_as_str(m.heap, S), 1, PREFIX_LEN),
                  trailing |-> Ptr(S.ptr)])

\* try_from(String) that always copies out of the String.
try_from_String_copy(m, S, moves) ==
    LET r == try_from_str(m, String_as_str(m.heap, S))
    IN  [r EXCEPT !.mem = String_drop(r.mem, S)]

try_from_String(m, S, moves) ==
    IF S.len <= INLINE_LEN
    THEN LET r == try_from_str(m, String_as_str(m.heap, S))
         IN  [r EXCEPT !.mem = String_drop(r.mem, S)]
    ELSE IF S.len > MAX_LEN
         THEN Err(String_drop(m, S))
         ELSE LET prefix == SubSeq(String_as_str(m.heap, S), 1, PREFIX_LEN)
                  b == into_boxed_str(m, S, moves)
              IN  Ok(b.mem, [len |-> S.len, prefix |-> prefix, trailing |-> Ptr(b.ptr)])

Borrowed(s) == [variant |-> "Borrowed", str |-> s,
                S |-> [ptr |-> NullPtr, len |-> 0, cap |-> 0]]
Owned(S) == [variant |-> "Owned", str |-> <<>>, S |-> S]

try_from_Cow(m, cow, moves) ==
    IF cow.variant = "Borrowed"
    THEN try_from_str(m, cow.str)
    ELSE try_from_String(m, cow.S, moves)

\* RopeSlice's conversion to Cow<str>: a slice that is contiguous in memory
\* is borrowed, any other is collected into a String::with_capacity(len_bytes).
RopeSlice_into_Cow(m, slice, contiguous) ==
    IF contiguous
    THEN [mem |-> m, cow |-> Borrowed(slice)]
    ELSE LET n == String_new(m, slice, Len(slice))
         IN  [mem |-> n.mem, cow |-> Owned(n.s)]

try_from_RopeSlice(m, slice, contiguous) ==
    LET c == RopeSlice_into_Cow(m, slice, contiguous)
    IN  try_from_Cow(c.mem, c.cow, FALSE)

\* ------------------------------------------------------------- lifecycle
\* drop that frees whatever the trailing word holds.
drop_always(m, this) == dealloc(m, this.trailing.ptr, layout(this.len))

drop(m, this) ==
    IF this.len > INLINE_LEN
    THEN dealloc(m, this.trailing.ptr, layout(this.len))
    ELSE m

\* clone as a copy of the two words.
clone_shallow(m, self) == Ok(m, self)

clone(m, self) ==
    LET z == zeroed(m, self.len)
        w == as_bytes_mut_copy(z.mem, z.this, as_bytes(m.heap, self))
        mem == [w.mem EXCEPT !.ub = @ \/ ~Readable(m.heap, self)]
    IN  IF w.this.len > INLINE_LEN
        THEN Ok(mem, [w.this EXCEPT !.prefix = SubSeq(as_bytes(m.heap, self), 1, PREFIX_LEN)])
        ELSE Ok(mem, w.this)

default(m) == Ok(zeroed(m, 0).mem, zeroed(m, 0).this)

\* --------------------------------------------------------- surface traits
\* eq on the two words instead of the text.
eq_raw(h, self, other) == self = other

eq(h, self, other) == as_str(h, self) = as_str(h, other)

\* str's Hash feeds the bytes and then the byte 0xff to the hasher.
hash(h, self) == as_str(h, self) \o <<255>>

\* ------------------------------------------------------------------ steps
\* What the last call was and what it did to the allocator.  A call that
\* returned no instance is recorded without the slot, the capacity and the
\* String pointer it was given, and a drop without the slot it emptied.
Did(op, k, src, r, n, cap, strPtr) ==
    [op |-> op, slot |-> IF r.res = "Err" THEN 0 ELSE k, src |-> src, res |-> r.res,
     inLen |-> n, cap |-> IF r.res = "Err" THEN 0 ELSE cap,
     strPtr |-> IF r.res = "Err" THEN NullPtr ELSE strPtr,
     allocs |-> r.mem.allocs, deallocs |-> r.mem.deallocs, reallocs |-> r.mem.reallocs,
     copied |-> r.mem.copied, want |-> r.mem.want, had |-> r.mem.had,
     hadBy |-> r.mem.hadBy, ub |-> r.mem.ub]

NoCall == Did("none", 0, 0, Err(Mem(<<>>)), 0, 0, NullPtr)

\* A call is made once the caller is done with the record of the one before.
Idle == last.op = "none"

\* A new instance goes to the first slot that holds none.
Unused(k) == k \in Slots \ live /\ \A j \in Slots \ live : k <= j

Install(k, r, s) ==
    /\ ~r.mem.oom
    /\ heap' = r.mem.heap
    /\ IF r.res = "Ok"
       THEN /\ objs' = [objs EXCEPT ![k] = r.this]
            /\ live' = live \cup {k}
            /\ text' = [text EXCEPT ![k] = s]
       ELSE UNCHANGED <<objs, live, text>>
    /\ UNCHANGED pool

TryFromStr(k, s) ==
    /\ Idle
    /\ Unused(k)
    /\ LET r == try_from_str(Mem(heap), s)
       IN  /\ Install(k, r, s)
           /\ last' = Did("str", k, 0, r, Len(s), 0, NullPtr)

\* The caller's String is built first; the call is what happens after.
TryFromString(k, s, cap, moves) ==
    /\ Idle
    /\ Unused(k)
    /\ moves => cap > Len(s)
    /\ LET pre == String_new(Mem(heap), s, cap)
           r == try_from_String(Mem(pre.mem.heap), pre.s, moves)
       IN  /\ ~pre.mem.oom
           /\ moves => r.mem.reallocs > 0
           /\ Install(k, r, s)
           /\ last' = Did("String", k, 0, r, Len(s), cap, pre.s.ptr)

TryFromCow(k, s, owned, cap, moves) ==
    /\ Idle
    /\ Unused(k)
    /\ ~owned => (cap = Len(s) /\ ~moves)
    /\ moves => cap > Len(s)
    /\ LET pre == IF owned THEN String_new(Mem(heap), s, cap)
                  ELSE [mem |-> Mem(heap), s |-> Borrowed(s).S]
           cow == IF owned THEN Owned(pre.s) ELSE Borrowed(s)
           r == try_from_Cow(Mem(pre.mem.heap), cow, moves)
       IN  /\ ~pre.mem.oom
           /\ moves => r.mem.reallocs > 0
           /\ Install(k, r, s)
           /\ last' = Did(IF owned THEN "CowOwned" ELSE "CowBorrowed", k, 0, r,
                          Len(s), IF owned THEN cap ELSE 0, pre.s.ptr)

\* A slice that is not contiguous spans at least two chunks.
TryFromRope(k, s, contiguous) ==
    /\ Idle
    /\ Unused(k)
    /\ ~contiguous => Len(s) >= 2
    /\ LET r == try_from_RopeSlice(Mem(heap), s, contiguous)
       IN  /\ Install(k, r, s)
           /\ last' = Did(IF contiguous THEN "RopeBorrowed" ELSE "RopeOwned", k, 0, r,
                          Len(s), 0, NullPtr)

Clone(src, dst) ==
    /\ Idle
    /\ src \in live
    /\ Unused(dst)
    /\ LET r == clone(Mem(heap), objs[src])
       IN  /\ Install(dst, r, text[src])
           /\ last' = Did("clone", dst, src, r, objs[src].len, 0, NullPtr)

Drop(k) ==
    /\ Idle
    /\ k \in live
    /\ LET m == drop(Mem(heap), objs[k])
       IN  /\ heap' = m.heap
           /\ last' = Did("drop", 0, 0, [res |-> "None", mem |-> m], objs[k].len, 0,
                          NullPtr)
    /\ live' = live \ {k}
    /\ objs' = [objs EXCEPT ![k] = Uninit]
    /\ text' = [text EXCEPT ![k] = <<>>]
    /\ UNCHANGED pool

Default(k) ==
    /\ Idle
    /\ Unused(k)
    /\ LET r == default(Mem(heap))
       IN  /\ Install(k, r, <<>>)
           /\ last' = Did("default", k, 0, r, 0, 0, NullPtr)

\* a == b for two instances; the operands are taken in slot order.
Compare(a, b) ==
    /\ Idle
    /\ a \in live
    /\ b \in live
    /\ a < b
    /\ LET m == [Mem(heap) EXCEPT !.ub = ~Readable(heap, objs[a]) \/ ~Readable(heap, objs[b])]
       IN  last' = Did("eq", a, b,
                       [res |-> IF eq(heap, objs[a], objs[b]) THEN "true" ELSE "false",
                        mem |-> m],
                       objs[a].len, 0, NullPtr)
    /\ UNCHANGED <<heap, objs, live, text, pool>>

\* The caller is done with the record of the last call.
Forget ==
    /\ ~Idle
    /\ last' = NoCall
    /\ UNCHANGED <<heap, objs, live, text, pool>>

Init ==
    /\ heap = [a \in Addrs |-> FreeCell]
    /\ objs = [k \in Slots |-> Uninit]
    /\ live = {}
    /\ text = [k \in Slots |-> <<>>]
    /\ last = NoCall
    /\ pool = SamplePool

Next ==
    \/ \E k \in Slots, s \in pool : TryFromStr(k, s)
    \/ \E k \in Slots, s \in pool, slack \in 0..MaxSlack, moves \in BOOLEAN :
          TryFromString(k, s, Len(s) + slack, moves)
    \/ \E k \in Slots, s \in pool, owned \in BOOLEAN, slack \in 0..MaxSlack,
          moves \in BOOLEAN :
          TryFromCow(k, s, owned, Len(s) + slack, moves)
    \/ \E k \in Slots, s \in pool, contiguous \in BOOLEAN : TryFromRope(k, s, contiguous)
    \/ \E src, dst \in Slots : Clone(src, dst)
    \/ \E k \in Slots : Drop(k)
    \/ \E k \in Slots : Default(k)
    \/ \E a, b \in Slots : Compare(a, b)
    \/ Forget

Spec == Init /\ [][Next]_vars

\* Every byte length from 0 to past MAX_LEN: a run works on the text of one
\* length.
InitAll ==
    /\ heap = [a \in Addrs |-> FreeCell]
    /\ objs = [k \in Slots |-> Uninit]
    /\ live = {}
    /\ text = [k \in Slots |-> <<>>]
    /\ last = NoCall
    /\ pool \in {{Str(n, 1)} : n \in AllLens}

SpecAll == InitAll /\ [][Next]_vars

\* ----------------------------------------------------------------- claims
CtorOps == {"str", "String", "CowBorrowed", "CowOwned", "RopeBorrowed", "RopeOwned"}
HeapMode(this) == this.len > INLINE_LEN

\* C1: every construction path, given a text of at most MAX_LEN bytes,
\* returns Ok, and the instance's string view is the text byte for byte and
\* its len() the text's byte length, for as long as the instance lives.
RoundTrip ==
    /\ (last.op \in CtorOps /\ last.inLen <= MAX_LEN) =>
           /\ last.res = "Ok"
           /\ last.slot \in live
           /\ len(objs[last.slot]) = last.inLen
    /\ \A k \in live :
           /\ as_str(heap, objs[k]) = text[k]
           /\ as_bytes(heap, objs[k]) = text[k]
           /\ len(objs[k]) = Len(text[k])

\* A String of INLINE_LEN + 1 bytes has just been converted and reads back.
RoundTripWitness ==
    /\ last.op = "String"
    /\ last.res = "Ok"
    /\ last.inLen = INLINE_LEN + 1
    /\ last.slot \in live
    /\ as_str(heap, objs[last.slot]) = Str(INLINE_LEN + 1, 1)

\* C2: every construction path, given a text of more than MAX_LEN bytes,
\* fails with TooLongError and the call makes no heap allocation.
TooLongNoAlloc ==
    (last.op \in CtorOps /\ last.inLen > MAX_LEN) =>
        /\ last.res = "Err"
        /\ last.allocs = 0
        /\ last.reallocs = 0

\* C3: drop deallocates exactly when len > INLINE_LEN, with the layout the
\* buffer was allocated with, however the buffer was obtained.
DropLayout ==
    last.op = "drop" =>
        /\ last.deallocs = (IF last.inLen > INLINE_LEN THEN 1 ELSE 0)
        /\ last.deallocs = 1 => (last.want = last.had /\ last.want = layout(last.inLen))
        /\ ~last.ub

\* A buffer taken over from a String has just been freed.
DropLayoutWitness ==
    /\ last.op = "drop"
    /\ last.deallocs = 1
    /\ last.hadBy = "String"
    /\ last.want = last.had

\* C4: a clone has the length and the content of its source and, in heap
\* mode, a buffer of its own; and no step changes or invalidates the byte
\* view of an instance that lives through it.
CloneSame ==
    last.op = "clone" =>
        /\ last.res = "Ok"
        /\ {last.slot, last.src} \subseteq live
        /\ len(objs[last.slot]) = len(objs[last.src])
        /\ as_str(heap, objs[last.slot]) = as_str(heap, objs[last.src])
        /\ Readable(heap, objs[last.slot])
        /\ HeapMode(objs[last.src]) =>
               /\ objs[last.slot].trailing.ptr # objs[last.src].trailing.ptr
               /\ last.allocs = 1

ViewsKept ==
    \A k \in live \cap live' :
        /\ Readable(heap, objs[k]) => Readable(heap', objs'[k])
        /\ as_bytes(heap', objs'[k]) = as_bytes(heap, objs[k])

CloneIndependence == [](CloneSame /\ \A k \in live : Readable(heap, objs[k]))
                        /\ [][ViewsKept]_vars

\* A heap-mode instance has just been cloned into a buffer of its own.
CloneIndependenceWitness ==
    /\ last.op = "clone"
    /\ last.inLen > INLINE_LEN
    /\ {last.slot, last.src} \subseteq live
    /\ objs[last.slot].trailing.ptr # objs[last.src].trailing.ptr
    /\ as_str(heap, objs[last.slot]) = text[last.src]

\* C5: every live buffer is owned by exactly one live heap-mode instance,
\* every live heap-mode instance points to a live buffer of exactly len
\* bytes, nothing is freed twice or read after it is freed, and with no
\* instance left no buffer is left.
Owners(a) == {k \in live : HeapMode(objs[k]) /\ objs[k].trailing.ptr = a}

SingleOwner ==
    /\ \A a \in Addrs : heap[a].live => Cardinality(Owners(a)) = 1
    /\ \A k \in live : HeapMode(objs[k]) =>
           /\ objs[k].trailing.ptr \in Addrs
           /\ heap[objs[k].trailing.ptr].live
           /\ heap[objs[k].trailing.ptr].size = objs[k].len
           /\ Len(heap[objs[k].trailing.ptr].bytes) = objs[k].len
    /\ ~last.ub
    /\ live = {} => FreeAddrs(heap) = Addrs

\* A String's buffer has been handed over while another instance owns one.
SingleOwnerWitness ==
    /\ last.op = "String"
    /\ last.res = "Ok"
    /\ last.inLen > INLINE_LEN
    /\ objs[last.slot].trailing.ptr = last.strPtr
    /\ \E k \in live \ {last.slot} : HeapMode(objs[k])

\* C6: an instance is inline, with no pointer and no allocation, exactly
\* when len <= INLINE_LEN = 2 * WordSize - 1, and holds an owning pointer
\* exactly when len > INLINE_LEN.
ModeByLen ==
    /\ INLINE_LEN = 2 * WordSize - 1
    /\ \A k \in live :
           /\ objs[k].trailing.kind = "suffix" <=> objs[k].len <= INLINE_LEN
           /\ objs[k].trailing.kind = "ptr" <=> objs[k].len > INLINE_LEN
           /\ objs[k].len <= INLINE_LEN =>
                  /\ objs[k].trailing.ptr = NullPtr
                  /\ Len(objs[k].trailing.suffix) = SUFFIX_LEN
           /\ objs[k].len > INLINE_LEN => heap[objs[k].trailing.ptr].live
    /\ (\A k \in live : ~HeapMode(objs[k])) => FreeAddrs(heap) = Addrs
    /\ ~last.ub

\* A text of MAX_LEN bytes is held in heap mode.
ModeByLenWitness ==
    \E k \in live :
        /\ objs[k].len = MAX_LEN
        /\ objs[k].trailing.kind = "ptr"
        /\ as_str(heap, objs[k]) = Str(MAX_LEN, 1)

\* C7: converting a String longer than INLINE_LEN whose capacity is its
\* length hands its own buffer to the instance, with no allocation,
\* reallocation or buffer copy; with slack the buffer is shrunk first; in
\* both cases the owned buffer is exactly len bytes.
AllocationReuse ==
    (last.op \in {"String", "CowOwned"} /\ last.res = "Ok" /\ last.inLen > INLINE_LEN) =>
        /\ as_str(heap, objs[last.slot]) = text[last.slot]
        /\ heap[objs[last.slot].trailing.ptr].size = last.inLen
        /\ last.allocs = 0
        /\ last.deallocs = 0
        /\ last.cap = last.inLen =>
               /\ objs[last.slot].trailing.ptr = last.strPtr
               /\ last.reallocs = 0
               /\ last.copied = 0
        /\ last.cap # last.inLen => last.reallocs = 1

\* An exactly allocated String has just been converted.
AllocationReuseWitness ==
    /\ last.op = "String"
    /\ last.res = "Ok"
    /\ last.inLen > INLINE_LEN
    /\ last.cap = last.inLen
    /\ objs[last.slot].trailing.ptr = last.strPtr
    /\ last.strPtr # NullPtr

\* C8: the prefix of every heap-mode instance is the first PREFIX_LEN
\* bytes of its buffer, from the moment it is returned on.
PrefixMirror ==
    \A k \in live : HeapMode(objs[k]) =>
        /\ Len(objs[k].prefix) = PREFIX_LEN
        /\ objs[k].prefix = SubSeq(heap[objs[k].trailing.ptr].bytes, 1, PREFIX_LEN)

\* A heap-mode clone carries the prefix of its text.
PrefixMirrorWitness ==
    /\ last.op = "clone"
    /\ last.inLen > INLINE_LEN
    /\ last.slot \in live
    /\ objs[last.slot].prefix = SubSeq(text[last.slot], 1, PREFIX_LEN)
    /\ objs[last.slot].prefix # Zeros(PREFIX_LEN)

\* C9: two instances are equal exactly when their texts are, however each
\* was built and wherever its bytes are, and equal instances feed the
\* hasher the same bytes.
EqByContent ==
    /\ \A a, b \in live :
           /\ eq(heap, objs[a], objs[b]) <=> text[a] = text[b]
           /\ eq(heap, objs[a], objs[b]) <=> as_str(heap, objs[a]) = as_str(heap, objs[b])
           /\ eq(heap, objs[a], objs[b]) => hash(heap, objs[a]) = hash(heap, objs[b])
    /\ last.op = "eq" => (last.res = "true" <=> text[last.slot] = text[last.src])

\* Two equal instances, one on a String's buffer and one on its own, have
\* just been compared.
EqByContentWitness ==
    /\ last.op = "eq"
    /\ last.res = "true"
    /\ last.slot # last.src
    /\ HeapMode(objs[last.slot])
    /\ objs[last.slot].trailing.ptr # objs[last.src].trailing.ptr
    /\ heap[objs[last.slot].trailing.ptr].by # heap[objs[last.src].trailing.ptr].by

\* C10: the default instance has length 0, is empty, is inline and
\* allocates nothing; dropping an instance of length 0 frees nothing.
DefaultEmpty ==
    /\ last.op = "default" =>
           /\ last.res = "Ok"
           /\ last.slot \in live
           /\ len(objs[last.slot]) = 0
           /\ is_empty(objs[last.slot])
           /\ as_str(heap, objs[last.slot]) = <<>>
           /\ objs[last.slot].trailing.kind = "suffix"
           /\ last.allocs = 0
    /\ (last.op = "drop" /\ last.inLen = 0) => (last.deallocs = 0 /\ ~last.ub)

\* A default instance has just been made.
DefaultEmptyWitness ==
    /\ last.op = "default"
    /\ last.slot \in live
    /\ is_empty(objs[last.slot])
====
